---- MODULE Spec2Model ----
(***************************************************************************)
(* Detection-to-layout conversion of ocrmypdf-paddleocr(-remote):          *)
(* PaddleOCRRemote.predict and the two PaddleOCREngine.generate_hocr /     *)
(* generate_pdf implementations (remote and in-process), as one state      *)
(* machine.  One run of the machine is one call of generate_hocr or        *)
(* generate_pdf on one page.                                               *)
(*                                                                         *)
(* Numbers.  Python floats are modelled by exact rationals <<num, den>>.   *)
(* The scores and scale factors drawn below are dyadic, so their products  *)
(* are exact in a double.  The quotients the word layout truncates with    *)
(* int() are quotients of small integers; a double agrees with the exact   *)
(* quotient there, except that the in-process space width                  *)
(* int((line_width / total_chars) * 0.3) falls one short of the exact      *)
(* value for some line widths from 70 up where the exact value is an       *)
(* integer (line_width 70, total_chars 3).  The line widths drawn below    *)
(* are ones on which the double and the exact quotient agree.              *)
(***************************************************************************)
EXTENDS Integers, Sequences, FiniteSets, TLC

\* ------------------------------------------------------------------ bounds
\* longest detection list the backend returns in the pipeline scenarios
MaxDet == 2
\* largest xmax of the single line of the layout scenarios
MaxCoord == 24
\* longest text of the single line of the layout scenarios
MaxLen == 6
\* the longest text of the escaping scenarios
MaxEsc == 3

\* ------------------------------------------------------- program constants
\* im.thumbnail((3000, 3000))
MaxSide == 3000

\* ----------------------------------------------------------------- helpers
Min2(a, b) == IF a <= b THEN a ELSE b
Max2(a, b) == IF a >= b THEN a ELSE b

\* Python int(n/d) for d > 0: truncation toward zero
Trunc(n, d) == IF n >= 0 THEN n \div d ELSE -((-n) \div d)

\* Python dict.get(key, default); a dict is a function on its keys
Get(d, k, default) == IF k \in DOMAIN d THEN d[k] ELSE default

\* Python truthiness of a dict or a list
Truthy(d) == DOMAIN d # {}

EmptyDict == <<>>

RECURSIVE SumLen(_)
\* sum(len(w) for w in words)
SumLen(words) ==
  IF words = <<>> THEN 0 ELSE Len(Head(words)) + SumLen(Tail(words))

IsSpace(c) == c = " "

RECURSIVE SplitFrom(_, _)
\* str.split(): cur is the word being read, text what is left to read
SplitFrom(text, cur) ==
  IF text = <<>>
    THEN IF cur = <<>> THEN <<>> ELSE <<cur>>
    ELSE IF IsSpace(Head(text))
           THEN IF cur = <<>>
                  THEN SplitFrom(Tail(text), <<>>)
                  ELSE <<cur>> \o SplitFrom(Tail(text), <<>>)
           ELSE SplitFrom(Tail(text), Append(cur, Head(text)))

Split(text) == SplitFrom(text, <<>>)

RECURSIVE Replace(_, _, _)
\* str.replace(c, r) for a one-character pattern c
Replace(s, c, r) ==
  IF s = <<>> THEN <<>>
  ELSE (IF Head(s) = c THEN r ELSE <<Head(s)>>) \o Replace(Tail(s), c, r)

Amp == <<"&", "a", "m", "p", ";">>
Lt == <<"&", "l", "t", ";">>
Gt == <<"&", "g", "t", ";">>

\* the three replacements with '&' replaced last
EscapeAmpLast(word) == Replace(Replace(Replace(word, "<", Lt), ">", Gt), "&", Amp)

\* word.replace('&', '&amp;').replace('<', '&lt;').replace('>', '&gt;')
Escape(word) == Replace(Replace(Replace(word, "&", Amp), "<", Lt), ">", Gt)

RECURSIVE Join(_, _)
\* sep.join(parts), parts a list of strings
Join(parts, sep) ==
  IF parts = <<>> THEN <<>>
  ELSE IF Len(parts) = 1 THEN Head(parts)
  ELSE Head(parts) \o sep \o Join(Tail(parts), sep)

RECURSIVE SeqMin(_)
SeqMin(s) == IF Len(s) = 1 THEN s[1] ELSE Min2(s[1], SeqMin(Tail(s)))

RECURSIVE SeqMax(_)
SeqMax(s) == IF Len(s) = 1 THEN s[1] ELSE Max2(s[1], SeqMax(Tail(s)))

\* length of zip(texts, scores, polys)
ZipLen(texts, scores, polys) == Min2(Len(texts), Min2(Len(scores), Len(polys)))

\* int(score * 100), score the rational <<num, den>>
ConfPct(score) == Trunc(score[1] * 100, score[2])

\* -------------------------------------------------------- markup nodes
\* One element of hocr_lines.  Every node carries the same fields; a tag
\* that has no id, bbox, confidence or text carries the defaults.
NoBox == <<0, 0, 0, 0>>
Node(tag, id, bbox, conf, text) ==
  [tag |-> tag, id |-> id, bbox |-> bbox, conf |-> conf, text |-> text]
Plain(tag) == Node(tag, 0, NoBox, 0, <<>>)

\* the twelve lines hocr_lines starts with
Header(width, height) ==
  << Plain("xml_decl"), Plain("doctype"), Plain("doctype_dtd"),
     Plain("html_open"), Plain("head_open"), Plain("title"),
     Plain("meta_content_type"), Plain("meta_ocr_system"),
     Plain("meta_ocr_capabilities"), Plain("head_close"),
     Plain("body_open"),
     Node("page_open", 1, <<0, 0, width, height>>, 0, <<>>) >>

\* the closing tags without the one of the page
FooterWithoutPageClose == << Plain("body_close"), Plain("html_close") >>

\* hocr_lines.extend(['</div>', '</body>', '</html>'])
Footer == << Plain("page_close"), Plain("body_close"), Plain("html_close") >>

\* ------------------------------------------- word layout, remote variant
\* space_width of a line (remote plugin.py 246-252).  total_space_width is
\* the rational tsw_num / tsw_den.
RemoteSpaceWidth(words, x_min, x_max) ==
  LET line_width == x_max - x_min
      total_chars == SumLen(words)
      num_spaces == Len(words) - 1
      tsw_den == total_chars + num_spaces
      tsw_num == line_width * tsw_den - total_chars * line_width
  IN  IF num_spaces > 0 THEN Trunc(tsw_num, tsw_den * num_spaces) ELSE 0

\* RemoteWordWidth rounding the quotient up instead of truncating it
RemoteWordWidthRoundsUp(word, words, x_min, x_max) ==
  LET line_width == x_max - x_min
      total_chars == SumLen(words)
      num_spaces == Len(words) - 1
      space_width == RemoteSpaceWidth(words, x_min, x_max)
      word_area_width == line_width - (space_width * num_spaces)
  IN  IF total_chars > 0
        THEN -((-(word_area_width * Len(word))) \div total_chars)
        ELSE line_width \div Len(words)

\* word_width of one word (remote plugin.py 254-262)
RemoteWordWidth(word, words, x_min, x_max) ==
  LET line_width == x_max - x_min
      total_chars == SumLen(words)
      num_spaces == Len(words) - 1
      space_width == RemoteSpaceWidth(words, x_min, x_max)
      word_area_width == line_width - (space_width * num_spaces)
  IN  IF total_chars > 0
        THEN Trunc(word_area_width * Len(word), total_chars)
        ELSE line_width \div Len(words)

\* word_x_max of word i (remote plugin.py 265-268)
RemoteWordXMax(i, n, current_x, word_width, x_max) ==
  IF i = n THEN x_max ELSE current_x + word_width

RECURSIVE RemoteWordBoxes(_, _, _, _, _)
\* the x-extents of words i.. of a line (remote plugin.py 256-286)
RemoteWordBoxes(words, i, current_x, x_min, x_max) ==
  IF i > Len(words) THEN <<>>
  ELSE LET word_width == RemoteWordWidth(words[i], words, x_min, x_max)
           word_x_max == RemoteWordXMax(i, Len(words), current_x, word_width, x_max)
           space_width == RemoteSpaceWidth(words, x_min, x_max)
       IN  << <<current_x, word_x_max>> >>
             \o RemoteWordBoxes(words, i + 1, word_x_max + space_width, x_min, x_max)

\* --------------------------------------- word layout, in-process variant
\* total_chars counts the spaces between the words (plugin.py 312)
LocalTotalChars(words) == SumLen(words) + Len(words) - 1

\* space_width = int(avg_char_width * 0.3) (plugin.py 314-315)
LocalSpaceWidth(words, x_min, x_max) ==
  LET line_width == x_max - x_min
      total_chars == LocalTotalChars(words)
  IN  IF total_chars > 0 THEN Trunc(line_width * 3, total_chars * 10) ELSE 0

\* word_width of one word (plugin.py 320-323)
LocalWordWidth(word, words, x_min, x_max) ==
  LET line_width == x_max - x_min
      total_chars == LocalTotalChars(words)
  IN  IF total_chars > 0
        THEN Trunc(line_width * Len(word), total_chars)
        ELSE line_width \div Len(words)

\* word_x_max = min(current_x + word_width, x_max) (plugin.py 325)
LocalWordXMax(i, n, current_x, word_width, x_max) ==
  Min2(current_x + word_width, x_max)

RECURSIVE LocalWordBoxes(_, _, _, _, _)
\* the x-extents of words i.. of a line (plugin.py 317-343)
LocalWordBoxes(words, i, current_x, x_min, x_max) ==
  IF i > Len(words) THEN <<>>
  ELSE LET word_width == LocalWordWidth(words[i], words, x_min, x_max)
           word_x_max == LocalWordXMax(i, Len(words), current_x, word_width, x_max)
           space_width == LocalSpaceWidth(words, x_min, x_max)
       IN  << <<current_x, word_x_max>> >>
             \o LocalWordBoxes(words, i + 1, word_x_max + space_width, x_min, x_max)

\* ------------------------------------------------ one detection's markup
\* confidence written on the line node and on each word node
LineConf(score) == ConfPct(score)
WordConf(score) == ConfPct(score)

RECURSIVE WordNodes(_, _, _, _, _, _, _)
\* the ocrx_word spans of a line, a ' ' after each word but the last
WordNodes(words, boxes, i, word_id, y_min, y_max, score) ==
  IF i > Len(words) THEN <<>>
  ELSE << Node("word", word_id + i - 1,
               <<boxes[i][1], y_min, boxes[i][2], y_max>>,
               WordConf(score), Escape(words[i])) >>
       \o (IF i < Len(words) THEN << Plain("space") >> ELSE <<>>)
       \o WordNodes(words, boxes, i + 1, word_id, y_min, y_max, score)

\* what one loop iteration appends to hocr_lines for a detection with
\* non-empty text: area, paragraph and line openers, the words, the closers
LineNodes(v, text, score, bbox, line_id, carea_id, par_id, word_id) ==
  LET words == Split(text)
      boxes == IF v = "remote"
                 THEN RemoteWordBoxes(words, 1, bbox[1], bbox[1], bbox[3])
                 ELSE LocalWordBoxes(words, 1, bbox[1], bbox[1], bbox[3])
  IN  << Node("carea_open", carea_id, bbox, 0, <<>>),
         Node("par_open", par_id, bbox, 0, <<>>),
         Node("line_open", line_id, bbox, LineConf(score), <<>>) >>
      \o WordNodes(words, boxes, 1, word_id, bbox[2], bbox[4], score)
      \o << Plain("line_close"), Plain("par_close"), Plain("carea_close") >>

\* ------------------------------------------------------ geometry intake
\* remote: rec_boxes gives (x_min, y_min, x_max, y_max) itself; the scale
\* recorded by predict is not applied (remote plugin.py 177-178, 220)
RemoteBBox(box) == box

RECURSIVE ScaledCoords(_, _, _)
\* [int(point[k] * scale) for point in poly]
ScaledCoords(poly, k, scale) ==
  IF poly = <<>> THEN <<>>
  ELSE << Trunc(Head(poly)[k] * scale[1], scale[2]) >>
       \o ScaledCoords(Tail(poly), k, scale)

\* in-process: polygon to bounding box under the scale (plugin.py 280-288)
LocalBBox(poly, scale_x, scale_y) ==
  LET xs == ScaledCoords(poly, 1, scale_x)
      ys == ScaledCoords(poly, 2, scale_y)
  IN  << SeqMin(xs), SeqMin(ys), SeqMax(xs), SeqMax(ys) >>

\* im.thumbnail((3000, 3000)): the width of the image sent to the service.
\* An image that fits is left alone; otherwise the longer side becomes
\* MaxSide and the other keeps the aspect ratio.  For a portrait page the
\* library takes the floor or the ceiling of MaxSide * w / h, whichever
\* keeps the ratio better; the two are the same when h divides MaxSide * w.
ThumbnailWidth(w, h) ==
  IF w <= MaxSide /\ h <= MaxSide THEN w
  ELSE IF w >= h THEN MaxSide
  ELSE Max2((MaxSide * w) \div h, 1)

\* ------------------------------------------------------------------- state
VARIABLES
  variant,      \* "remote" or "inprocess": which plugin is installed
  entry,        \* "hocr" or "pdf": generate_hocr or generate_pdf was called
  image,        \* the input file: [kind, width, height]
  backend,      \* what the OCR backend answers to this call
  pc,           \* position in the call
  posts,        \* predict: number of requests.post calls made
  scale,        \* predict: the local `scale`, <<num, den>>
  err,          \* predict: the error caught by `except Exception as e`
  result,       \* what predict returned
  exc,          \* the exception that left the call, NoExc while none has
  width, height,
  ocr_result, scale_x, scale_y,
  hocr_lines, all_text, texts, scores, polys,
  line_id,      \* enumerate(zip(...), 1): the element the loop is at
  word_id, carea_id, par_id,
  output_hocr, output_text, output_pdf   \* the three files

vars == << variant, entry, image, backend, pc, posts, scale, err, result, exc,
           width, height, ocr_result, scale_x, scale_y, hocr_lines, all_text,
           texts, scores, polys, line_id, word_id, carea_id, par_id,
           output_hocr, output_text, output_pdf >>

NoExc == [type |-> "none", msg |-> "", cause |-> "none"]
Raised(type, msg, cause) == [type |-> type, msg |-> msg, cause |-> cause]
Unwritten == [written |-> FALSE, content |-> <<>>]
Written(content) == [written |-> TRUE, content |-> content]
One == <<1, 1>>

\* -------------------------------------------------------------- scenarios
\* A scenario is the environment of one call: the plugin, the entry point,
\* the image file and the backend's answer.
Img(kind, w, h) == [kind |-> kind, width |-> w, height |-> h]
Page == Img("ok", 800, 600)
BigPage == Img("ok", 9000, 6000)

\* the answer of the remote service
Http(transport, status, json_ok, body) ==
  [transport |-> transport, status |-> status, json_ok |-> json_ok, body |-> body]
HttpOk(body) == Http("ok", 200, TRUE, body)
\* the JSON body {"result": {"ocrResults": [{"prunedResult": pruned}]}}
BodyOf(pruned) == [result |-> [ocrResults |-> << [prunedResult |-> pruned] >>]]
RemoteDict(t, s, b) == [rec_texts |-> t, rec_scores |-> s, rec_boxes |-> b]

\* the return value of the in-process PaddleOCR.predict
Local(is_none, list) == [is_none |-> is_none, list |-> list]
LocalDict(t, s, p) == [rec_texts |-> t, rec_scores |-> s, rec_polys |-> p]
\* ocr_result with doc_preprocessor_res.output_img of shape (h, w)
WithPrep(d, shape) ==
  d @@ [doc_preprocessor_res |-> [output_img |-> shape]]
PolyOf(b) == << <<b[1], b[2]>>, <<b[3], b[2]>>, <<b[3], b[4]>>, <<b[1], b[4]>> >>

Restrict(d, keys) == [k \in keys |-> d[k]]

Scenario(v, e, img, b) == [variant |-> v, entry |-> e, image |-> img, backend |-> b]

Det(text, score, box) == [text |-> text, score |-> score, box |-> box]

\* the detections of the pipeline scenarios: ordinary text, empty text,
\* whitespace-only text, text to escape, scores outside [0, 1], a box that
\* leaves an 800 x 600 page, a box with a negative coordinate
PipeDets ==
  { Det(<<"a", " ", "&">>, <<7, 8>>, <<100, 50, 700, 90>>),
    Det(<<>>, <<1, 2>>, <<100, 100, 300, 140>>),
    Det(<<" ">>, <<1, 2>>, <<100, 150, 301, 190>>),
    Det(<<"<", "b", ">", " ", "c", "c">>, <<3, 2>>, <<200, 200, 900, 240>>),
    Det(<<"a", "b">>, <<-1, 8>>, <<-4, 300, 60, 340>>) }

\* the three parallel lists: each is a prefix of the same list of detections,
\* so the lists may differ in length
PipeLists ==
  { [t |-> [i \in 1..nt |-> d[i].text],
     s |-> [i \in 1..ns |-> d[i].score],
     b |-> [i \in 1..nb |-> d[i].box]] :
      nt \in 0..MaxDet, ns \in 0..MaxDet, nb \in 0..MaxDet,
      d \in [1..MaxDet -> PipeDets] }

PolysOf(boxes) == [i \in 1..Len(boxes) |-> PolyOf(boxes[i])]

PipelineScenarios ==
  { Scenario("remote", "hocr", img, HttpOk(BodyOf(RemoteDict(l.t, l.s, l.b)))) :
      img \in {Page, BigPage}, l \in PipeLists }
  \cup
  { Scenario("inprocess", "hocr", Page,
             Local(FALSE, << LocalDict(l.t, l.s, PolysOf(l.b)) >>)) :
      l \in PipeLists }
  \cup
  { Scenario("inprocess", "hocr", Page,
             Local(FALSE, << WithPrep(LocalDict(l.t, l.s, PolysOf(l.b)), <<300, 400>>) >>)) :
      l \in PipeLists }

\* one line of text over {a, space}, of every length up to MaxLen, in a box
\* that starts at 0 or 3 and ends anywhere up to MaxCoord (remote: also with
\* x_min > x_max; the in-process box is the hull of a polygon, so x_min <=
\* x_max there)
LayoutTexts == UNION { [1..n -> {"a", " "}] : n \in 0..MaxLen }
LayoutXMin == {0, 3}
LayoutPage == Img("ok", MaxCoord, 2)
LayoutScore == <<1, 2>>

LayoutScenarios ==
  { Scenario("remote", "hocr", LayoutPage,
             HttpOk(BodyOf(RemoteDict(<<t>>, <<LayoutScore>>, << <<x0, 0, x1, 2>> >>)))) :
      t \in LayoutTexts, x0 \in LayoutXMin, x1 \in 0..MaxCoord }
  \cup
  { Scenario("inprocess", "hocr", LayoutPage,
             Local(FALSE, << LocalDict(<<t>>, <<LayoutScore>>,
                                       << PolyOf(<<x[1], 0, x[2], 2>>) >>) >>)) :
      t \in LayoutTexts,
      x \in { p \in LayoutXMin \X (0..MaxCoord) : p[1] <= p[2] } }

\* the failures of the remote call: an image that cannot be decoded, a
\* connection error, a timeout, a non-2xx status, a body that is no JSON
OneLine == RemoteDict(<< <<"a">> >>, << <<7, 8>> >>, << <<100, 50, 700, 90>> >>)
FailureAnswers ==
  { Http("connection_error", 0, FALSE, EmptyDict),
    Http("timeout", 0, FALSE, EmptyDict),
    Http("ok", 404, TRUE, BodyOf(OneLine)),
    Http("ok", 500, FALSE, EmptyDict),
    Http("ok", 200, FALSE, EmptyDict) }

FailureScenarios ==
  { Scenario("remote", e, Page, a) : e \in {"hocr", "pdf"}, a \in FailureAnswers }
  \cup
  { Scenario("remote", e, Img(k, 800, 600), HttpOk(BodyOf(OneLine))) :
      e \in {"hocr", "pdf"}, k \in {"ok", "truncated", "unreadable"} }
  \cup
  { Scenario("inprocess", e, Img(k, 800, 600),
             Local(FALSE, << LocalDict(OneLine.rec_texts, OneLine.rec_scores,
                                       PolysOf(OneLine.rec_boxes)) >>)) :
      e \in {"hocr", "pdf"}, k \in {"ok", "unreadable"} }

\* the shapes of a successful answer: fields missing, lists empty
RemoteShapes ==
  { EmptyDict,
    [result |-> EmptyDict],
    [result |-> [ocrResults |-> <<>>]],
    [result |-> [ocrResults |-> << EmptyDict >>]],
    [result |-> [ocrResults |-> << [logId |-> <<>>] >>]],
    BodyOf(EmptyDict),
    BodyOf(RemoteDict(<<>>, <<>>, <<>>)) }
  \cup
  { BodyOf(Restrict(OneLine, keys)) :
      keys \in SUBSET {"rec_texts", "rec_scores", "rec_boxes"} }

LocalOneLine ==
  LocalDict(OneLine.rec_texts, OneLine.rec_scores, PolysOf(OneLine.rec_boxes))

LocalShapes ==
  { Local(TRUE, <<>>),
    Local(FALSE, <<>>),
    Local(FALSE, << EmptyDict >>),
    Local(FALSE, << LocalDict(<<>>, <<>>, <<>>) >>),
    Local(FALSE, << LocalOneLine @@ [doc_preprocessor_res |-> EmptyDict] >>),
    Local(FALSE, << LocalOneLine @@ [doc_preprocessor_res |-> [input_path |-> <<>>]] >>) }
  \cup
  { Local(FALSE, << Restrict(LocalOneLine, keys) >>) :
      keys \in SUBSET {"rec_texts", "rec_scores", "rec_polys"} }
  \cup
  { Local(FALSE, << WithPrep(LocalOneLine, shape) >>) :
      shape \in { <<600, 800>>, <<300, 400>>, <<1200, 1600>>, <<0, 0>>, <<300, 0>> } }

ShapeScenarios ==
  { Scenario("remote", e, Page, HttpOk(b)) : e \in {"hocr", "pdf"}, b \in RemoteShapes }
  \cup
  { Scenario("inprocess", e, Page, b) : e \in {"hocr", "pdf"}, b \in LocalShapes }

\* texts with the characters to escape: every text over {&, <, >, a, space}
\* up to MaxEsc characters, a text that already looks escaped, and a line
\* of five words
EscapeTexts ==
  UNION { [1..n -> {"&", "<", ">", "a", " "}] : n \in 0..MaxEsc }
  \cup { <<"&", "a", "m", "p", ";">>,
         <<"A", " ", "&", " ", "B", " ", "<", " ", "C">> }

EscapeScenarios ==
  { Scenario("remote", "hocr", Page,
             HttpOk(BodyOf(RemoteDict(<<t>>, << <<7, 8>> >>, << <<100, 50, 701, 90>> >>)))) :
      t \in EscapeTexts }
  \cup
  { Scenario("inprocess", "hocr", Page,
             Local(FALSE, << LocalDict(<<t>>, << <<7, 8>> >>,
                                       << PolyOf(<<100, 50, 701, 90>>) >>) >>)) :
      t \in EscapeTexts }

\* preprocessed images whose size differs from the page's: a 1000 x 2000
\* page answered in 500 x 1000, an 800 x 600 page answered in 640 x 480
TallPage == Img("ok", 1000, 2000)
ScaleBoxes == { <<100, 50, 700, 90>>, <<103, 51, 699, 91>> }

ScaleScenarios ==
  { Scenario("inprocess", "hocr", TallPage,
             Local(FALSE, << WithPrep(LocalDict(OneLine.rec_texts, OneLine.rec_scores,
                                                << PolyOf(<<100, 50, 400, 90>>) >>),
                                      <<1000, 500>>) >>)) }
  \cup
  { Scenario("inprocess", "hocr", Page,
             Local(FALSE, << WithPrep(LocalDict(OneLine.rec_texts, OneLine.rec_scores,
                                                << PolyOf(b) >>),
                                      <<480, 640>>) >>)) :
      b \in ScaleBoxes }

\* three detections, the one in the middle without text
SkipDets ==
  << Det(<<"a", " ", "&">>, <<7, 8>>, <<100, 50, 700, 90>>),
     Det(<<>>, <<1, 2>>, <<100, 100, 300, 140>>),
     Det(<<"<", "b", ">", " ", "c", "c">>, <<3, 2>>, <<200, 200, 900, 240>>) >>
SkipTexts == [i \in DOMAIN SkipDets |-> SkipDets[i].text]
SkipScores == [i \in DOMAIN SkipDets |-> SkipDets[i].score]
SkipBoxes == [i \in DOMAIN SkipDets |-> SkipDets[i].box]

SkipScenarios ==
  { Scenario("remote", "hocr", Page,
             HttpOk(BodyOf(RemoteDict(SkipTexts, SkipScores, SkipBoxes)))),
    Scenario("inprocess", "hocr", Page,
             Local(FALSE, << LocalDict(SkipTexts, SkipScores, PolysOf(SkipBoxes)) >>)) }

Scenarios ==
  PipelineScenarios \cup LayoutScenarios \cup FailureScenarios \cup ShapeScenarios
    \cup EscapeScenarios \cup ScaleScenarios \cup SkipScenarios

Init ==
  /\ \E s \in Scenarios :
       /\ variant = s.variant
       /\ entry = s.entry
       /\ image = s.image
       /\ backend = s.backend
  /\ pc = "start"
  /\ posts = 0
  /\ scale = One
  /\ err = "none"
  /\ result = EmptyDict
  /\ exc = NoExc
  /\ width = 0
  /\ height = 0
  /\ ocr_result = EmptyDict
  /\ scale_x = One
  /\ scale_y = One
  /\ hocr_lines = <<>>
  /\ all_text = <<>>
  /\ texts = <<>>
  /\ scores = <<>>
  /\ polys = <<>>
  /\ line_id = 1
  /\ word_id = 1
  /\ carea_id = 1
  /\ par_id = 1
  /\ output_hocr = Unwritten
  /\ output_text = Unwritten
  /\ output_pdf = Unwritten

\* ---------------------------------------------------------------- actions
PredictVars == << posts, scale, err, result >>
LoopVars == << hocr_lines, all_text, texts, scores, polys,
               line_id, word_id, carea_id, par_id >>
GenVars == << width, height, ocr_result, scale_x, scale_y >>
FileVars == << output_hocr, output_text, output_pdf >>
EnvVars == << variant, entry, image, backend >>

\* OpenImage creating the markup file before the OCR has run
OpenImageCreatesOutput ==
  /\ pc = "start"
  /\ IF image.kind = "unreadable"
       THEN /\ exc' = Raised("UnidentifiedImageError", "cannot identify image file", "none")
            /\ pc' = "failed"
            /\ UNCHANGED << width, height >>
       ELSE /\ width' = image.width
            /\ height' = image.height
            /\ pc' = IF variant = "remote" THEN "p_encode" ELSE "l_predict"
            /\ UNCHANGED exc
  /\ output_hocr' = Written(<<>>)
  /\ UNCHANGED << EnvVars, PredictVars, ocr_result, scale_x, scale_y, LoopVars,
                  output_text, output_pdf >>

\* generate_hocr up to the call of predict: Image.open(input_file) reads
\* the size of the page; a file that is no image raises here
OpenImage ==
  /\ pc = "start"
  /\ IF image.kind = "unreadable"
       THEN /\ exc' = Raised("UnidentifiedImageError", "cannot identify image file", "none")
            /\ pc' = "failed"
            /\ UNCHANGED << width, height >>
       ELSE /\ width' = image.width
            /\ height' = image.height
            /\ pc' = IF variant = "remote" THEN "p_encode" ELSE "l_predict"
            /\ UNCHANGED exc
  /\ UNCHANGED << EnvVars, PredictVars, ocr_result, scale_x, scale_y, LoopVars, FileVars >>

\* predict, remote: open, convert, thumbnail and encode the image
PredictEncode ==
  /\ pc = "p_encode"
  /\ IF image.kind = "truncated"
       THEN /\ err' = "OSError"
            /\ pc' = "p_except"
            /\ UNCHANGED scale
       ELSE /\ scale' = << image.width, ThumbnailWidth(image.width, image.height) >>
            /\ pc' = "p_post"
            /\ UNCHANGED err
  /\ UNCHANGED << EnvVars, posts, result, exc, GenVars, LoopVars, FileVars >>

\* predict, remote: requests.post and response.raise_for_status()
PredictPost ==
  /\ pc = "p_post"
  /\ posts' = posts + 1
  /\ IF backend.transport = "connection_error"
       THEN err' = "ConnectionError" /\ pc' = "p_except"
     ELSE IF backend.transport = "timeout"
       THEN err' = "Timeout" /\ pc' = "p_except"
     ELSE IF backend.status >= 400 /\ backend.status < 600
       THEN err' = "HTTPError" /\ pc' = "p_except"
     ELSE err' = err /\ pc' = "p_parse"
  /\ UNCHANGED << EnvVars, scale, result, exc, GenVars, LoopVars, FileVars >>

\* result['result'].get('ocrResults', [{}])[0], or the error it raises
Pruned(body) ==
  IF "result" \notin DOMAIN body THEN [error |-> "KeyError", value |-> EmptyDict]
  ELSE LET ocrResults == Get(body["result"], "ocrResults", << EmptyDict >>)
       IN  IF Len(ocrResults) = 0
             THEN [error |-> "IndexError", value |-> EmptyDict]
             ELSE [error |-> "none", value |-> ocrResults[1]]

\* predict, remote: response.json() and the pruned result
PredictParse ==
  /\ pc = "p_parse"
  /\ IF ~backend.json_ok
       THEN err' = "JSONDecodeError" /\ pc' = "p_except" /\ UNCHANGED result
     ELSE LET pruned == Pruned(backend.body)
          IN  IF pruned.error # "none"
                THEN err' = pruned.error /\ pc' = "p_except" /\ UNCHANGED result
                ELSE /\ result' = IF Truthy(pruned.value) THEN pruned.value ELSE EmptyDict
                     /\ pc' = "g_result"
                     /\ UNCHANGED err
  /\ UNCHANGED << EnvVars, posts, scale, exc, GenVars, LoopVars, FileVars >>

\* Reraised letting the caught error through as it is (a bare `raise`)
ReraisedRaw(e) == Raised(e, "", "none")

\* what the except clause does with the error e it caught
Reraised(e) == Raised("Exception", "PaddleOCR Remote failure", e)

\* predict, remote: except Exception as e: raise Exception(..., e); neither
\* generate_hocr nor generate_pdf catches it
PredictExcept ==
  /\ pc = "p_except"
  /\ exc' = Reraised(err)
  /\ pc' = "failed"
  /\ UNCHANGED << EnvVars, PredictVars, GenVars, LoopVars, FileVars >>

\* the lists the loop zips, read with .get(key, [])
ListsOf(d, geometry_key) ==
  [t |-> Get(d, "rec_texts", <<>>),
   s |-> Get(d, "rec_scores", <<>>),
   p |-> Get(d, geometry_key, <<>>)]

\* generate_hocr, remote, from the return of predict to the loop:
\* result['prunedResult'], the scale factors, the header, the lists
RemoteResult ==
  /\ pc = "g_result"
  /\ IF "prunedResult" \notin DOMAIN result
       THEN /\ exc' = Raised("KeyError", "prunedResult", "none")
            /\ pc' = "failed"
            /\ UNCHANGED << ocr_result, scale_x, scale_y, LoopVars >>
       ELSE LET o == result["prunedResult"]
                l == ListsOf(o, "rec_boxes")
            IN  /\ ocr_result' = o
                /\ scale_x' = One
                /\ scale_y' = One
                /\ hocr_lines' = Header(width, height)
                /\ all_text' = <<>>
                /\ IF Truthy(o)
                     THEN /\ texts' = l.t /\ scores' = l.s /\ polys' = l.p
                          /\ pc' = "loop"
                     ELSE /\ UNCHANGED << texts, scores, polys >>
                          /\ pc' = "finish"
                /\ UNCHANGED << line_id, word_id, carea_id, par_id, exc >>
  /\ UNCHANGED << EnvVars, PredictVars, width, height, FileVars >>

\* predict, in-process: the PaddleOCR model's answer
PredictLocal ==
  /\ pc = "l_predict"
  /\ result' = backend
  /\ pc' = "l_result"
  /\ UNCHANGED << EnvVars, posts, scale, err, exc, GenVars, LoopVars, FileVars >>

\* the shape of doc_preprocessor_res.output_img, <<>> when there is none
PrepShape(r) ==
  IF r.is_none \/ Len(r.list) = 0 THEN <<>>
  ELSE LET doc_prep_res == Get(r.list[1], "doc_preprocessor_res", EmptyDict)
       IN  IF Truthy(doc_prep_res) THEN Get(doc_prep_res, "output_img", <<>>) ELSE <<>>

\* (scale_x, scale_y) of the in-process variant (plugin.py 208-229); the
\* division raises when a dimension of the preprocessed image is 0
LocalScale(r, w, h) ==
  LET shape == PrepShape(r)
  IN  IF shape = <<>> THEN [error |-> "none", x |-> One, y |-> One]
      ELSE IF shape[2] = 0 \/ shape[1] = 0
        THEN [error |-> "ZeroDivisionError", x |-> One, y |-> One]
        ELSE [error |-> "none", x |-> <<w, shape[2]>>, y |-> <<h, shape[1]>>]

\* generate_hocr, in-process, from the return of predict to the loop
LocalResult ==
  /\ pc = "l_result"
  /\ LET sc == LocalScale(result, width, height)
         has == ~result.is_none /\ Len(result.list) > 0
         o == IF has THEN result.list[1] ELSE EmptyDict
         l == ListsOf(o, "rec_polys")
     IN  IF sc.error # "none"
           THEN /\ exc' = Raised(sc.error, "division by zero", "none")
                /\ pc' = "failed"
                /\ UNCHANGED << ocr_result, scale_x, scale_y, LoopVars >>
           ELSE /\ ocr_result' = o
                /\ scale_x' = sc.x
                /\ scale_y' = sc.y
                /\ hocr_lines' = Header(width, height)
                /\ all_text' = <<>>
                /\ IF has
                     THEN /\ texts' = l.t /\ scores' = l.s /\ polys' = l.p
                          /\ pc' = "loop"
                     ELSE /\ UNCHANGED << texts, scores, polys >>
                          /\ pc' = "finish"
                /\ UNCHANGED << line_id, word_id, carea_id, par_id, exc >>
  /\ UNCHANGED << EnvVars, PredictVars, width, height, FileVars >>

\* the bounding box of detection i in page space
BBoxOf(i) ==
  IF variant = "remote" THEN RemoteBBox(polys[i])
  ELSE LocalBBox(polys[i], scale_x, scale_y)

\* the loop body on a detection whose text is empty: continue
LineSkip ==
  /\ pc = "loop"
  /\ line_id <= ZipLen(texts, scores, polys)
  /\ texts[line_id] = <<>>
  /\ line_id' = line_id + 1
  /\ UNCHANGED << EnvVars, PredictVars, exc, GenVars, hocr_lines, all_text,
                  texts, scores, polys, word_id, carea_id, par_id, FileVars, pc >>

\* the loop body with the word counter left where it was
LineEmitKeepsWordId ==
  /\ pc = "loop"
  /\ line_id <= ZipLen(texts, scores, polys)
  /\ texts[line_id] # <<>>
  /\ all_text' = Append(all_text, texts[line_id])
  /\ hocr_lines' = hocr_lines \o LineNodes(variant, texts[line_id], scores[line_id],
                                           BBoxOf(line_id), line_id, carea_id,
                                           par_id, word_id)
  /\ word_id' = word_id
  /\ carea_id' = carea_id + 1
  /\ par_id' = par_id + 1
  /\ line_id' = line_id + 1
  /\ UNCHANGED << EnvVars, PredictVars, exc, GenVars, texts, scores, polys,
                  FileVars, pc >>

\* the loop body on a detection with text
LineEmit ==
  /\ pc = "loop"
  /\ line_id <= ZipLen(texts, scores, polys)
  /\ texts[line_id] # <<>>
  /\ all_text' = Append(all_text, texts[line_id])
  /\ hocr_lines' = hocr_lines \o LineNodes(variant, texts[line_id], scores[line_id],
                                           BBoxOf(line_id), line_id, carea_id,
                                           par_id, word_id)
  /\ word_id' = word_id + Len(Split(texts[line_id]))
  /\ carea_id' = carea_id + 1
  /\ par_id' = par_id + 1
  /\ line_id' = line_id + 1
  /\ UNCHANGED << EnvVars, PredictVars, exc, GenVars, texts, scores, polys,
                  FileVars, pc >>

\* after the loop: the closing tags of the page, the body and the document
AppendFooter ==
  /\ \/ pc = "finish"
     \/ pc = "loop" /\ line_id > ZipLen(texts, scores, polys)
  /\ hocr_lines' = hocr_lines \o Footer
  /\ pc' = "write_hocr"
  /\ UNCHANGED << EnvVars, PredictVars, exc, GenVars, all_text, texts, scores,
                  polys, line_id, word_id, carea_id, par_id, FileVars >>

\* output_hocr.write_text('\n'.join(hocr_lines))
WriteHocr ==
  /\ pc = "write_hocr"
  /\ output_hocr' = Written(hocr_lines)
  /\ pc' = "write_text"
  /\ UNCHANGED << EnvVars, PredictVars, exc, GenVars, LoopVars, output_text, output_pdf >>

\* the transcript joined with spaces in place of newlines
WriteTextJoinsWithSpace ==
  /\ pc = "write_text"
  /\ output_text' = Written(Join(all_text, << " " >>))
  /\ pc' = IF entry = "pdf" THEN "to_pdf" ELSE "done"
  /\ UNCHANGED << EnvVars, PredictVars, exc, GenVars, LoopVars, output_hocr, output_pdf >>

\* output_text.write_text('\n'.join(all_text))
WriteText ==
  /\ pc = "write_text"
  /\ output_text' = Written(Join(all_text, << "\n" >>))
  /\ pc' = IF entry = "pdf" THEN "to_pdf" ELSE "done"
  /\ UNCHANGED << EnvVars, PredictVars, exc, GenVars, LoopVars, output_hocr, output_pdf >>

\* generate_pdf after generate_hocr returned: HocrTransform(...).to_pdf
ToPdf ==
  /\ pc = "to_pdf"
  /\ output_pdf' = Written(output_hocr.content)
  /\ pc' = "done"
  /\ UNCHANGED << EnvVars, PredictVars, exc, GenVars, LoopVars, output_hocr, output_text >>

Next ==
  \/ OpenImage
  \/ PredictEncode
  \/ PredictPost
  \/ PredictParse
  \/ PredictExcept
  \/ RemoteResult
  \/ PredictLocal
  \/ LocalResult
  \/ LineSkip
  \/ LineEmit
  \/ AppendFooter
  \/ WriteHocr
  \/ WriteText
  \/ ToPdf

Spec == Init /\ [][Next]_vars

\* ------------------------------------------------------ reading the markup
Tags(tagset) == { k \in DOMAIN hocr_lines : hocr_lines[k].tag \in tagset }
LineIdx == Tags({"line_open"})
GeometryIdx == Tags({"carea_open", "par_open", "line_open", "word"})

\* the line_close that ends the line opened at k
CloseOf(k) ==
  CHOOSE j \in (k + 1)..Len(hocr_lines) :
    /\ hocr_lines[j].tag = "line_close"
    /\ \A m \in (k + 1)..(j - 1) : hocr_lines[m].tag # "line_close"

IsWord(n) == n.tag = "word"

\* the word nodes of the line opened at k, in order
WordsOfLine(k) == SelectSeq(SubSeq(hocr_lines, k + 1, CloseOf(k) - 1), IsWord)

Abs(x) == IF x >= 0 THEN x ELSE -x
Clamp(x, lo, hi) == IF x < lo THEN lo ELSE IF x > hi THEN hi ELSE x

\* the lists have been read from the backend's answer
ListsRead == pc \in {"loop", "finish", "write_hocr", "write_text", "to_pdf", "done"}
Produced == pc \in {"write_hocr", "write_text", "to_pdf", "done"}
RemoteFailure == "PaddleOCR Remote failure"

\* ------------------------------------------------------------------ claims

\* C1: in both variants, on every emitted line with at least one word the
\* first word starts at the line's xmin, every following word starts at
\* the previous word's xmax plus one and the same inter-word gap, and the
\* last word ends at the line's xmax.
C1_WordsSpanLine ==
  \A k \in LineIdx :
    LET ws == WordsOfLine(k)
        line == hocr_lines[k].bbox
    IN  Len(ws) > 0 =>
          /\ ws[1].bbox[1] = line[1]
          /\ ws[Len(ws)].bbox[3] = line[3]
          /\ \A i \in 1..(Len(ws) - 1) :
               ws[i + 1].bbox[1] - ws[i].bbox[3] = ws[2].bbox[1] - ws[1].bbox[3]

\* C2: on every line whose box has xmin <= xmax the words are ordered left
\* to right without overlap, every word box lies inside the line's
\* x-extent with xmin <= xmax, and every word has the line's ymin and ymax.
C2_WordsOrderedInsideLine ==
  \A k \in LineIdx :
    LET ws == WordsOfLine(k)
        line == hocr_lines[k].bbox
    IN  line[1] <= line[3] =>
          \A i \in 1..Len(ws) :
            /\ line[1] <= ws[i].bbox[1]
            /\ ws[i].bbox[1] <= ws[i].bbox[3]
            /\ ws[i].bbox[3] <= line[3]
            /\ ws[i].bbox[2] = line[2]
            /\ ws[i].bbox[4] = line[4]
            /\ i > 1 => ws[i].bbox[1] >= ws[i - 1].bbox[3]

\* C2 witness: a finished page of either variant holds a line of three
\* words of different lengths in a box of positive width, with a gap
\* between the words.
C2_Witness ==
  /\ pc = "done"
  /\ \E k \in LineIdx :
       LET ws == WordsOfLine(k)
       IN  /\ Len(ws) = 3
           /\ hocr_lines[k].bbox[1] < hocr_lines[k].bbox[3]
           /\ ws[2].bbox[1] > ws[1].bbox[3]
           /\ ws[1].bbox[3] - ws[1].bbox[1] > ws[2].bbox[3] - ws[2].bbox[1]

\* C3: remote variant: every coordinate of every emitted line box is within
\* one pixel of the service's coordinate multiplied by the downscale factor
\* that predict recorded (original width / resized width).
C3_ScaleApplied ==
  variant = "remote" =>
    \A k \in LineIdx :
      LET n == hocr_lines[k]
      IN  \A c \in 1..4 :
            Abs(n.bbox[c] * scale[2] - polys[n.id][c] * scale[1]) <= scale[2]

\* C4: every coordinate on an area, paragraph, line or word node lies
\* within [0, width] horizontally and [0, height] vertically.
C4_CoordsInsidePage ==
  \A k \in GeometryIdx :
    LET b == hocr_lines[k].bbox
    IN  /\ 0 <= b[1] /\ b[1] <= width
        /\ 0 <= b[3] /\ b[3] <= width
        /\ 0 <= b[2] /\ b[2] <= height
        /\ 0 <= b[4] /\ b[4] <= height

\* the backend answered, and its answer holds no detection: no result, an
\* empty result, or a result without rec_texts
NoDetections ==
  /\ image.kind = "ok"
  /\ IF variant = "remote"
       THEN /\ backend.transport = "ok"
            /\ backend.status = 200
            /\ backend.json_ok
            /\ "result" \in DOMAIN backend.body
            /\ LET ocrResults == Get(backend.body["result"], "ocrResults", <<>>)
               IN  \/ Len(ocrResults) = 0
                   \/ ~Truthy(ocrResults[1])
                   \/ /\ "prunedResult" \in DOMAIN ocrResults[1]
                      /\ Len(Get(ocrResults[1]["prunedResult"], "rec_texts", <<>>)) = 0
       ELSE \/ backend.is_none
            \/ Len(backend.list) = 0
            \/ /\ PrepShape(backend) = <<>>
               /\ Len(Get(backend.list[1], "rec_texts", <<>>)) = 0

\* C5: when the detection list is empty or missing, generate_hocr raises
\* nothing and writes a document whose page node has no children, with an
\* empty transcript.
C5_NoDetectionsGiveEmptyDocument ==
  NoDetections =>
    /\ pc # "failed"
    /\ output_hocr.written => output_hocr.content = Header(width, height) \o Footer
    /\ output_text.written => output_text.content = <<>>

\* C6: when the service answers with a success status and a JSON body whose
\* result has no ocrResults or an empty ocrResults, predict raises nothing
\* and returns an empty result.
C6_EmptyOcrResultsGiveEmptyResult ==
  ( /\ variant = "remote"
    /\ image.kind = "ok"
    /\ backend.transport = "ok"
    /\ backend.status = 200
    /\ backend.json_ok
    /\ "result" \in DOMAIN backend.body
    /\ Len(Get(backend.body["result"], "ocrResults", <<>>)) = 0 )
  => /\ err = "none"
     /\ exc.msg # RemoteFailure
     /\ ~Truthy(result)

\* the error the environment makes predict run into, "none" if it does not
EnvCause ==
  IF image.kind = "truncated" THEN "OSError"
  ELSE IF backend.transport = "connection_error" THEN "ConnectionError"
  ELSE IF backend.transport = "timeout" THEN "Timeout"
  ELSE IF backend.status \notin 200..299 THEN "HTTPError"
  ELSE IF ~backend.json_ok THEN "JSONDecodeError"
  ELSE IF "result" \notin DOMAIN backend.body THEN "KeyError"
  ELSE IF Len(Get(backend.body["result"], "ocrResults", << EmptyDict >>)) = 0
    THEN "IndexError"
  ELSE "none"

\* C7: every failure inside predict leaves it as one exception named
\* 'PaddleOCR Remote failure' that carries the error that caused it; predict
\* does not return a result then, no other exception leaves the call, and
\* the request is posted at most once.
C7_FailuresWrappedOnce ==
  /\ posts <= 1
  /\ (variant = "remote" /\ image.kind # "unreadable" /\ EnvCause # "none") =>
       /\ pc \in {"start", "p_encode", "p_post", "p_parse", "p_except", "failed"}
       /\ ~Truthy(result)
       /\ pc = "failed" => exc = Raised("Exception", RemoteFailure, EnvCause)

\* C7 witness: the request timed out and the call has ended with the
\* wrapped failure.
C7_Witness ==
  /\ pc = "failed"
  /\ variant = "remote"
  /\ backend.transport = "timeout"
  /\ posts = 1
  /\ exc.msg = RemoteFailure
  /\ exc.cause = "Timeout"

\* C8: when the remote call fails, no file has been written; the markup
\* file is written only once the whole document is assembled, the
\* transcript after it, the PDF last.
C8_NoFileOnRemoteFailure ==
  /\ exc.msg = RemoteFailure =>
       /\ output_hocr = Unwritten
       /\ output_text = Unwritten
       /\ output_pdf = Unwritten
  /\ output_hocr.written =>
       /\ pc \in {"write_text", "to_pdf", "done"}
       /\ output_hocr.content = hocr_lines
       /\ hocr_lines[Len(hocr_lines)].tag = "html_close"
  /\ output_text.written => output_hocr.written /\ pc \in {"to_pdf", "done"}
  /\ output_pdf.written => output_text.written /\ pc = "done"

\* C8 witness: generate_pdf has ended with a failed remote call and none of
\* the three files exists.
C8_Witness ==
  /\ pc = "failed"
  /\ entry = "pdf"
  /\ exc.msg = RemoteFailure
  /\ exc.cause = "ConnectionError"
  /\ ~output_hocr.written /\ ~output_text.written /\ ~output_pdf.written

\* C9: when the three parallel lists differ in length, generate_hocr fails
\* and produces no document; it never truncates to the shortest list.
C9_LengthMismatchRejected ==
  ( /\ ListsRead
    /\ ~(Len(texts) = Len(scores) /\ Len(scores) = Len(polys)) )
  => ~Produced

\* C10: the confidence written on each line node is floor(score * 100)
\* clamped to [0, 100], and each word of the line carries the same value.
C10_ConfidenceClamped ==
  \A k \in LineIdx :
    LET n == hocr_lines[k]
        score == scores[n.id]
        ws == WordsOfLine(k)
    IN  /\ n.conf = Clamp((score[1] * 100) \div score[2], 0, 100)
        /\ \A i \in 1..Len(ws) : ws[i].conf = n.conf

\* the rational a = <<num, den>> equals the rational b
RatEq(a, b) == a[1] * b[2] = b[1] * a[2]

\* C11: the scale of the in-process variant is (1, 1) when the backend gave
\* no preprocessed image or one of the page's own size, it is (page width /
\* backend width, page height / backend height) otherwise, and a backend
\* width or height of 0 falls back to (1, 1) without raising.
C11_ScaleResolved ==
  (variant = "inprocess" /\ image.kind = "ok"
     /\ pc \notin {"start", "l_predict", "l_result"}) =>
    LET shape == PrepShape(backend)
    IN  /\ pc # "failed"
        /\ IF shape = <<>> \/ shape = <<height, width>>
             \/ shape[1] = 0 \/ shape[2] = 0
             THEN RatEq(scale_x, One) /\ RatEq(scale_y, One)
             ELSE /\ RatEq(scale_x, <<width, shape[2]>>)
                  /\ RatEq(scale_y, <<height, shape[1]>>)

\* the detections with text, in the backend's order
HasText(i) == texts[i] # <<>>
Emitted == SelectSeq([i \in 1..Len(texts) |-> i], HasText)
IsGroupOpener(n) == n.tag \in {"carea_open", "par_open", "line_open"}
GroupOpeners == SelectSeq(hocr_lines, IsGroupOpener)
SameLengths == Len(texts) = Len(scores) /\ Len(scores) = Len(polys)

\* C12: for every list of detections the markup holds exactly one area,
\* paragraph and line group for each detection with text, in the backend's
\* order, and the transcript is the texts of those detections, in the same
\* order, joined with newlines: as many entries as there are line nodes.
C12_OneGroupPerDetectionInOrder ==
  (Produced /\ SameLengths) =>
    LET e == Emitted
        g == GroupOpeners
        expected == [j \in 1..Len(e) |-> texts[e[j]]]
    IN  /\ Len(g) = 3 * Len(e)
        /\ \A j \in 1..Len(e) :
             /\ g[3 * j - 2].tag = "carea_open"
             /\ g[3 * j - 1].tag = "par_open"
             /\ g[3 * j].tag = "line_open"
             /\ g[3 * j].id = e[j]
             /\ \A m \in {3 * j - 2, 3 * j - 1, 3 * j} : g[m].bbox = BBoxOf(e[j])
        /\ all_text = expected
        /\ Len(all_text) = Cardinality(LineIdx)
        /\ output_text.written => output_text.content = Join(expected, << "\n" >>)

\* two different detections with text have been written
C12_Witness ==
  /\ pc = "done" /\ SameLengths /\ Len(texts) = 2
  /\ texts[1] # <<>> /\ texts[2] # <<>> /\ texts[1] # texts[2]
  /\ polys[1] # polys[2]
  /\ Cardinality(LineIdx) = 2
  /\ output_text.written /\ output_hocr.written

\* one character of a word as the markup has to carry it
EscapedChar(c) ==
  IF c = "&" THEN Amp ELSE IF c = "<" THEN Lt ELSE IF c = ">" THEN Gt ELSE <<c>>

\* a word escaped once, character by character
RECURSIVE EscapedOnce(_)
EscapedOnce(w) ==
  IF w = <<>> THEN <<>> ELSE EscapedChar(Head(w)) \o EscapedOnce(Tail(w))

\* C13: the text of every word node is the detection's word with each '&'
\* replaced by '&amp;', each '<' by '&lt;' and each '>' by '&gt;', every
\* other character unchanged and no '&' of an entity escaped again.
C13_WordsEscapedOnce ==
  \A k \in LineIdx :
    hocr_lines[k].id \in DOMAIN texts =>
      LET words == Split(texts[hocr_lines[k].id])
          nodes == WordsOfLine(k)
      IN  /\ Len(nodes) = Len(words)
          /\ \A i \in 1..Len(words) : nodes[i].text = EscapedOnce(words[i])

\* the words of "A & B < C" have been written as A, &amp;, B, &lt;, C
C13_Witness ==
  /\ pc = "done"
  /\ output_hocr.written
  /\ \E k \in LineIdx :
       /\ texts[hocr_lines[k].id] = <<"A", " ", "&", " ", "B", " ", "<", " ", "C">>
       /\ [i \in 1..5 |-> WordsOfLine(k)[i].text]
            = << <<"A">>, <<"&", "a", "m", "p", ";">>, <<"B">>,
                 <<"&", "l", "t", ";">>, <<"C">> >>

\* coordinate k (1 = x, 2 = y) of the points of the polygon of detection i
RawCoords(i, k) == [p \in 1..Len(polys[i]) |-> polys[i][p][k]]

\* the integer e is within 1/2 of c times the rational s
NearestTo(e, c, s) == Abs(2 * e * s[2] - 2 * c * s[1]) <= s[2]

\* C14: in the in-process variant every coordinate written for a line is
\* the backend's coordinate times the scale rounded to the nearest integer:
\* it differs from the product by at most 1/2.
C14_ScaledCoordsRoundedToNearest ==
  (variant = "inprocess" /\ ListsRead) =>
    \A k \in LineIdx :
      LET i == hocr_lines[k].id
          b == hocr_lines[k].bbox
      IN  /\ NearestTo(b[1], SeqMin(RawCoords(i, 1)), scale_x)
          /\ NearestTo(b[2], SeqMin(RawCoords(i, 2)), scale_y)
          /\ NearestTo(b[3], SeqMax(RawCoords(i, 1)), scale_x)
          /\ NearestTo(b[4], SeqMax(RawCoords(i, 2)), scale_y)

\* the identifiers of the nodes of one tag, in document order
HasTag(tag, n) == n.tag = tag
IdsOf(tag) ==
  LET IsTag(n) == HasTag(tag, n)
      nodes == SelectSeq(hocr_lines, IsTag)
  IN  [j \in 1..Len(nodes) |-> nodes[j].id]

StrictlyIncreasing(s) == \A j \in 1..(Len(s) - 1) : s[j] < s[j + 1]

\* C15: within one page the identifiers of the line, paragraph and area
\* nodes, in the order of the markup, are strictly increasing, and so are
\* the identifiers of the word nodes across all lines: none is used twice,
\* also when detections without text are skipped.
C15_IdentifiersIncrease ==
  \A tag \in {"line_open", "par_open", "carea_open", "word"} :
    StrictlyIncreasing(IdsOf(tag))

\* a detection without text was skipped between two lines of two words
C15_Witness ==
  /\ pc = "done"
  /\ Len(texts) = 3 /\ texts[2] = <<>>
  /\ IdsOf("line_open") = <<1, 3>>
  /\ IdsOf("carea_open") = <<1, 2>>
  /\ IdsOf("par_open") = <<1, 2>>
  /\ IdsOf("word") = <<1, 2, 3, 4>>

\* the element a node opens and the node it has to be a child of
Opens(tag) ==
  CASE tag = "html_open" -> [element |-> "html", parent |-> "none"]
    [] tag = "head_open" -> [element |-> "head", parent |-> "html_open"]
    [] tag = "body_open" -> [element |-> "body", parent |-> "html_open"]
    [] tag = "page_open" -> [element |-> "div", parent |-> "body_open"]
    [] tag = "carea_open" -> [element |-> "div", parent |-> "page_open"]
    [] tag = "par_open" -> [element |-> "p", parent |-> "carea_open"]
    [] tag = "line_open" -> [element |-> "span", parent |-> "par_open"]
Openers ==
  {"html_open", "head_open", "body_open", "page_open", "carea_open",
   "par_open", "line_open"}

\* the element an end tag names: </div> ends a page as well as an area
Closes(tag) ==
  CASE tag = "head_close" -> "head"
    [] tag = "html_close" -> "html"
    [] tag = "body_close" -> "body"
    [] tag \in {"page_close", "carea_close"} -> "div"
    [] tag = "par_close" -> "p"
    [] tag = "line_close" -> "span"
Closers ==
  {"head_close", "html_close", "body_close", "page_close", "carea_close",
   "par_close", "line_close"}

\* a node that is complete in itself, and the node it has to be a child of
LeafParent(tag) ==
  CASE tag \in {"word", "space"} -> "line_open"
    [] tag \in {"title", "meta_content_type", "meta_ocr_system",
                "meta_ocr_capabilities"} -> "head_open"
    [] OTHER -> "none"

Top(stack) == IF stack = <<>> THEN "none" ELSE stack[Len(stack)]

\* reading doc from node i with the open elements on the stack: every start
\* tag is a child of the right element, every end tag names the innermost
\* open element, and nothing is left open at the end
RECURSIVE WellNested(_, _, _)
WellNested(doc, i, stack) ==
  IF i > Len(doc) THEN stack = <<>>
  ELSE LET tag == doc[i].tag
       IN  IF tag \in Openers
             THEN /\ Top(stack) = Opens(tag).parent
                  /\ WellNested(doc, i + 1, Append(stack, tag))
           ELSE IF tag \in Closers
             THEN /\ stack # <<>>
                  /\ Opens(Top(stack)).element = Closes(tag)
                  /\ WellNested(doc, i + 1, SubSeq(stack, 1, Len(stack) - 1))
           ELSE /\ Top(stack) = LeafParent(tag)
                /\ WellNested(doc, i + 1, stack)

\* character data carries no markup of its own: no '<' or '>', and every
\* '&' starts one of the three entities
CharDataOnly(text) ==
  \A p \in 1..Len(text) :
    /\ text[p] \notin {"<", ">"}
    /\ text[p] = "&" =>
         \E ent \in {Amp, Lt, Gt} :
           /\ p + Len(ent) - 1 <= Len(text)
           /\ SubSeq(text, p, p + Len(ent) - 1) = ent

CountOf(doc, tag) == Cardinality({ k \in DOMAIN doc : doc[k].tag = tag })

\* C16: the markup written for any list of detections is well-formed and
\* nested: every area, paragraph, line and word is closed in reverse order
\* of opening, words lie in a line, the line in a paragraph, the paragraph
\* in an area, the area in the one page node, and the page, the body and
\* the html element are closed once, at the end.
C16_MarkupWellNested ==
  output_hocr.written =>
    LET doc == output_hocr.content
        n == Len(doc)
    IN  /\ WellNested(doc, 1, <<>>)
        /\ \A k \in DOMAIN doc : CharDataOnly(doc[k].text)
        /\ \A tag \in {"html_open", "body_open", "page_open",
                       "html_close", "body_close", "page_close"} :
             CountOf(doc, tag) = 1
        /\ n >= 3
        /\ Closes(doc[n - 2].tag) = "div"
        /\ Closes(doc[n - 1].tag) = "body"
        /\ Closes(doc[n].tag) = "html"

\* a document with a line without words and a line of two words
C16_Witness ==
  /\ pc = "done"
  /\ output_hocr.written
  /\ output_hocr.content = hocr_lines
  /\ \E k \in LineIdx : Len(WordsOfLine(k)) = 0
  /\ \E k \in LineIdx : Len(WordsOfLine(k)) >= 2

====
